---- MODULE Spec2Model ----
(***************************************************************************)
(* A model of github.com/abitofhelp/pipeline: the Pipeline value built by  *)
(* pipeline.New, the Start method with the walker goroutine it launches    *)
(* (loadPathsToChannel), the consumer loop over pathsChannel with the      *)
(* goroutine it spawns per received path, and the Abort / Stop methods.    *)
(*                                                                         *)
(* Paths are sequences of path components; the names of directory entries  *)
(* are their positions in the walk order, the root is component 0.         *)
(***************************************************************************)
EXTENDS Integers, Sequences, FiniteSets, Bags

\* ------------------------------------------------------------------ bounds
\* Largest number of directory entries below the root.
MaxEntries == 3
\* Largest capacity of pathsChannel that is tried (0 is the unbuffered channel).
MaxChan == 1
\* Largest pathConsumerCount that is tried.
MaxConsumers == 1
\* Number of Abort / Stop calls the client makes at most, together.
MaxCalls == 2
\* Number of Start calls on the same Pipeline in the re-entrant specification.
MaxStarts == 2

Runs == 1..MaxStarts

\* ------------------------------------------------- constants of the program
kDefaultScannerBufferSize == 64 * 1024

kMaxScannerBufferSize == 1000 * 1024
kMaxPathsChannelSize == 256
kMaxPathConsumerCount == 50

\* type Status (pipeline.go, the iota block)
Aborting == 0
Starting == 1
Running == 2
Stopping == 3
Stopped == 4

\* ------------------------------------------------------ the directory tree
\* An entry of the walk: its kind and the position of its parent directory
\* (0 is the root).  A tree is the sequence of its entries in the order the
\* walk visits them (godirwalk walks depth first, Unsorted: true).  An
\* "unreadable" entry is a directory whose entries cannot be read.
Kinds == {"file", "dir", "unreadable"}

RECURSIVE Ancestors(_, _)
Ancestors(t, i) ==
    IF t[i].parent = 0 THEN {0}
    ELSE {t[i].parent} \cup Ancestors(t, t[i].parent)

IsWalkOrder(t) ==
    \A i \in 1..Len(t) :
        /\ t[i].parent < i
        /\ t[i].parent # 0 => t[t[i].parent].kind \in {"dir", "unreadable"}
        /\ \A j \in (t[i].parent + 1)..(i - 1) : t[i].parent \in Ancestors(t, j)

Trees ==
    UNION { { t \in [1..n -> [kind : Kinds, parent : 0..(MaxEntries - 1)]] : IsWalkOrder(t) }
            : n \in 0..MaxEntries }

\* The osPathname godirwalk hands to the Callback for entry i.
RECURSIVE OsPathname(_, _, _)
OsPathname(root, t, i) ==
    IF t[i].parent = 0 THEN Append(root, i)
    ELSE Append(OsPathname(root, t, t[i].parent), i)

\* de.Name(): the base name of the entry.
Name(i) == i

\* A Callback that does not look at the kind of the entry.
IsRegularAnyKind(t, i) == TRUE

\* de.IsRegular()
IsRegular(t, i) == t[i].kind = "file"

\* filepath.Join(a, b): a, a separator, b.
Join(a, b) == Append(a, b)

\* An ErrorCallback that ends the walk at the first error.
SkipNodeHalt(t, i) == Len(t)

\* godirwalk.SkipNode for entry i: the walk goes on behind the last entry
\* below i.
SkipNode(t, i) ==
    CHOOSE last \in i..Len(t) :
        /\ \A j \in (i + 1)..last : i \in Ancestors(t, j)
        /\ last < Len(t) => i \notin Ancestors(t, last + 1)

\* The string the Callback sends for entry i.
SentPath(root, t, i) == Join(OsPathname(root, t, i), Name(i))

\* ------------------------------------------------------------------- state
VARIABLES
    c,              \* the flags of the start command: path, sbs, pcs, pcc
    err,            \* the error start (or New) has come to; "none" before
    p,              \* the Pipeline value made by New (APipeline)
    tree,           \* the directory tree under p.path
    rootExists,     \* whether the directory p.path exists
    pathsChannel,   \* p.pathsChannel: its buffer and whether it is closed
    startPc,        \* per Start call: where the call is
    startErr,       \* per Start call: the value it returned
    wg,             \* per Start call: the counter of its sync.WaitGroup
    path,           \* per Start call: the loop variable of the range loop
    spawned,        \* per Start call: goroutines spawned that have not read path yet
    printing,       \* bag of paths whose processing goroutine is inside Printf
    processed,      \* bag of paths whose processing goroutine has finished
    walkerPc,       \* per Start call: where its loadPathsToChannel goroutine is
    walkPos,        \* per Start call: number of entries its walk has passed
    abortErrs,      \* the values returned by the Abort calls so far
    stopErrs,       \* the values returned by the Stop calls so far
    panicked        \* a goroutine has panicked: the process is gone

vars == <<c, err, p, tree, rootExists, pathsChannel, startPc, startErr, wg, path, spawned, printing,
          processed, walkerPc, walkPos, abortErrs, stopErrs, panicked>>

RootPath == <<0>>

\* pipeline.New: the fields as given, status Stopped, pathsChannel made with
\* capacity pathChanSize, commandChannel unbuffered.
New(pth, scannerBufferSize, pathChanSize, pathConsumerCount) ==
    [path |-> pth,
     scannerBufferSize |-> scannerBufferSize,
     pathChanSize |-> pathChanSize,
     pathConsumerCount |-> pathConsumerCount,
     status |-> Stopped]

\* The nil *Pipeline.
NilPipeline == [nil |-> TRUE]

\* The error New returns: setPath refuses the empty path, the other setters
\* accept every value.
NewErr(pth, scannerBufferSize, pathChanSize, pathConsumerCount) ==
    IF pth = <<>> THEN "the path cannot be empty" ELSE "nil"

\* A validation that holds the consumer count against the ceiling of the
\* channel size.
validateCommandLineWrongCeiling(cl) ==
    IF cl.path = <<>> THEN "there must be a path"
    ELSE IF cl.sbs > kMaxScannerBufferSize THEN "the maximum scanner buffer size cannot exceed"
    ELSE IF cl.pcs > kMaxPathsChannelSize THEN "the maximum number of paths cannot exceed"
    ELSE IF cl.pcc > kMaxPathsChannelSize THEN "the maximum number of consumers cannot exceed"
    ELSE "nil"

\* cmd.validateCommandLine: the switch takes the first case that holds.
validateCommandLine(cl) ==
    IF cl.path = <<>> THEN "there must be a path"
    ELSE IF cl.sbs > kMaxScannerBufferSize THEN "the maximum scanner buffer size cannot exceed"
    ELSE IF cl.pcs > kMaxPathsChannelSize THEN "the maximum number of paths cannot exceed"
    ELSE IF cl.pcc > kMaxPathConsumerCount THEN "the maximum number of consumers cannot exceed"
    ELSE "nil"

\* cmd.createPipeline: New with the flags; (nil, err) when New fails.
createPipeline(cl) ==
    IF NewErr(cl.path, cl.sbs, cl.pcs, cl.pcc) = "nil"
    THEN New(cl.path, cl.sbs, cl.pcs, cl.pcc)
    ELSE NilPipeline

\* The command lines tried: each flag small, at its ceiling and above it.
CommandLines ==
    [path : {<<>>, RootPath},
     sbs : {kDefaultScannerBufferSize, kMaxScannerBufferSize, kMaxScannerBufferSize + 1},
     pcs : (0..MaxChan) \cup {kMaxPathsChannelSize, kMaxPathsChannelSize + 1},
     pcc : (1..MaxConsumers) \cup {kMaxPathConsumerCount, kMaxPathConsumerCount + 1}]

\* The file systems tried: under a root that does not exist there is nothing.
FileSystems == { <<TRUE, t>> : t \in Trees } \cup { <<FALSE, <<>> >> }

\* make(chan string, n): empty and open.
MakeChan == [buf |-> <<>>, closed |-> FALSE]

\* The state before start or New has run.
InitCmd ==
    /\ c \in CommandLines
    /\ err = "none"
    /\ p = NilPipeline
    /\ \E fs \in FileSystems : rootExists = fs[1] /\ tree = fs[2]
    /\ pathsChannel = MakeChan
    /\ startPc = [r \in Runs |-> "idle"]
    /\ startErr = [r \in Runs |-> "none"]
    /\ wg = [r \in Runs |-> 0]
    /\ path = [r \in Runs |-> <<>>]
    /\ spawned = [r \in Runs |-> 0]
    /\ printing = EmptyBag
    /\ processed = EmptyBag
    /\ walkerPc = [r \in Runs |-> "none"]
    /\ walkPos = [r \in Runs |-> 0]
    /\ abortErrs = <<>>
    /\ stopErrs = <<>>
    /\ panicked = FALSE

\* The state after start has validated the command line and built the
\* pipeline, before it calls Start.
Init ==
    /\ \E pcs \in 0..MaxChan, pcc \in 1..MaxConsumers :
          /\ c = [path |-> RootPath, sbs |-> kDefaultScannerBufferSize,
                  pcs |-> pcs, pcc |-> pcc]
          /\ p = New(RootPath, kDefaultScannerBufferSize, pcs, pcc)
    /\ err = "nil"
    /\ \E fs \in FileSystems : rootExists = fs[1] /\ tree = fs[2]
    /\ pathsChannel = MakeChan
    /\ startPc = [r \in Runs |-> "idle"]
    /\ startErr = [r \in Runs |-> "none"]
    /\ wg = [r \in Runs |-> 0]
    /\ path = [r \in Runs |-> <<>>]
    /\ spawned = [r \in Runs |-> 0]
    /\ printing = EmptyBag
    /\ processed = EmptyBag
    /\ walkerPc = [r \in Runs |-> "none"]
    /\ walkPos = [r \in Runs |-> 0]
    /\ abortErrs = <<>>
    /\ stopErrs = <<>>
    /\ panicked = FALSE

\* ------------------------------------------------------- sync.WaitGroup
\* WaitGroup.Add(delta): the new counter; a negative counter panics.
WgAdd(counter, delta) == counter + delta

WgPanics(counter) == counter < 0

\* ------------------------------------------------------------- channels
\* A buffer that takes one path more than its capacity.
CanBufferOneMore(ch, capacity) == Len(ch.buf) <= capacity

\* A send on a buffered channel completes when the buffer has room.
CanBuffer(ch, capacity) == Len(ch.buf) < capacity

\* ---------------------------------------------------------------- Start
\* A Start whose walker does not wait for the start signal.
StartCallNoGate(r) ==
    /\ ~panicked
    /\ p # NilPipeline
    /\ startPc[r] = "idle"
    /\ wg' = [wg EXCEPT ![r] = 0]
    /\ walkerPc' = [walkerPc EXCEPT ![r] = "walk"]
    /\ startPc' = [startPc EXCEPT ![r] = "signal"]
    /\ UNCHANGED <<c, err, p, tree, rootExists, pathsChannel, startErr, path, spawned, printing,
                   processed, walkPos, abortErrs, stopErrs, panicked>>

\* Start, lines 262-265: declares wg (counter 0) and launches the walker
\* goroutine, which first parks at the receive from commandChannel.
StartCall(r) ==
    /\ ~panicked
    /\ p # NilPipeline
    /\ startPc[r] = "idle"
    /\ wg' = [wg EXCEPT ![r] = 0]
    /\ walkerPc' = [walkerPc EXCEPT ![r] = "gate"]
    /\ startPc' = [startPc EXCEPT ![r] = "signal"]
    /\ UNCHANGED <<c, err, p, tree, rootExists, pathsChannel, startErr, path, spawned, printing,
                   processed, walkPos, abortErrs, stopErrs, panicked>>

\* Start line 268 with loadPathsToChannel line 25: commandChannel is
\* unbuffered, so the send and the receive happen together.  The channel is a
\* field of the Pipeline, so the receiver is any walker waiting on it.
SignalStart(r, w) ==
    /\ ~panicked
    /\ startPc[r] = "signal"
    /\ walkerPc[w] = "gate"
    /\ startPc' = [startPc EXCEPT ![r] = "range"]
    /\ walkerPc' = [walkerPc EXCEPT ![w] = "walk"]
    /\ UNCHANGED <<c, err, p, tree, rootExists, pathsChannel, startErr, wg, path, spawned, printing,
                   processed, walkPos, abortErrs, stopErrs, panicked>>

\* Start lines 271 and 280-282: one receive of the range loop.  A buffered
\* path is assigned to the loop variable; on a closed and empty channel the
\* loop ends.  After the loop wg.Wait() blocks until the counter is 0, then
\* Start returns nil.
StartRange(r) ==
    /\ ~panicked
    /\ startPc[r] \in {"range", "wait"}
    /\ IF startPc[r] = "range"
       THEN IF pathsChannel.buf # <<>>
            THEN /\ path' = [path EXCEPT ![r] = Head(pathsChannel.buf)]
                 /\ pathsChannel' = [pathsChannel EXCEPT !.buf = Tail(@)]
                 /\ startPc' = [startPc EXCEPT ![r] = "body"]
                 /\ UNCHANGED startErr
            ELSE /\ pathsChannel.closed
                 /\ startPc' = [startPc EXCEPT ![r] = "wait"]
                 /\ UNCHANGED <<path, pathsChannel, startErr>>
       ELSE /\ wg[r] = 0
            /\ startPc' = [startPc EXCEPT ![r] = "returned"]
            /\ startErr' = [startErr EXCEPT ![r] = "nil"]
            /\ UNCHANGED <<path, pathsChannel>>
    /\ UNCHANGED <<c, err, p, tree, rootExists, wg, spawned, printing, processed, walkerPc, walkPos,
                   abortErrs, stopErrs, panicked>>

\* A loop that ends after its first path.
StartSpawnAndLeave(r) ==
    /\ ~panicked
    /\ startPc[r] = "body"
    /\ spawned' = [spawned EXCEPT ![r] = @ + 1]
    /\ startPc' = [startPc EXCEPT ![r] = "wait"]
    /\ UNCHANGED <<c, err, p, tree, rootExists, pathsChannel, startErr, wg, path, printing, processed,
                   walkerPc, walkPos, abortErrs, stopErrs, panicked>>

\* Start lines 272-276: the go statement of the loop body.  The closure
\* captures the loop variable, it does not copy it.
StartSpawn(r) ==
    /\ ~panicked
    /\ startPc[r] = "body"
    /\ spawned' = [spawned EXCEPT ![r] = @ + 1]
    /\ startPc' = [startPc EXCEPT ![r] = "range"]
    /\ UNCHANGED <<c, err, p, tree, rootExists, pathsChannel, startErr, wg, path, printing, processed,
                   walkerPc, walkPos, abortErrs, stopErrs, panicked>>

\* The value a processing goroutine of Start call r reads from the captured
\* loop variable: the one the loop holds when the goroutine reads it.
CapturedPath(r) == path[r]

\* Line 273, argument evaluation: a spawned goroutine reads path and enters
\* Printf.
ProcessBegin(r) ==
    /\ ~panicked
    /\ spawned[r] > 0
    /\ spawned' = [spawned EXCEPT ![r] = @ - 1]
    /\ printing' = printing (+) SetToBag({CapturedPath(r)})
    /\ UNCHANGED <<c, err, p, tree, rootExists, pathsChannel, startPc, startErr, wg, path, processed,
                   walkerPc, walkPos, abortErrs, stopErrs, panicked>>

\* Lines 273-276: Printf returns and the goroutine ends.  It never calls
\* wg.Done().
ProcessEnd(v) ==
    /\ ~panicked
    /\ BagIn(v, printing)
    /\ printing' = printing (-) SetToBag({v})
    /\ processed' = processed (+) SetToBag({v})
    /\ UNCHANGED <<c, err, p, tree, rootExists, pathsChannel, startPc, startErr, wg, path, spawned,
                   walkerPc, walkPos, abortErrs, stopErrs, panicked>>

\* --------------------------------------------------- loadPathsToChannel
\* A Callback that sends a regular file without registering it.
WalkerCallbackNoAdd(w) ==
    /\ ~panicked
    /\ walkerPc[w] = "walk"
    /\ walkPos[w] < Len(tree)
    /\ tree[walkPos[w] + 1].kind # "unreadable"
    /\ IF IsRegular(tree, walkPos[w] + 1)
       THEN /\ walkerPc' = [walkerPc EXCEPT ![w] = "send"]
            /\ UNCHANGED <<wg, walkPos>>
       ELSE /\ walkPos' = [walkPos EXCEPT ![w] = @ + 1]
            /\ UNCHANGED <<wg, walkerPc>>
    /\ UNCHANGED <<c, err, p, tree, rootExists, pathsChannel, startPc, startErr, path, spawned, printing,
                   processed, abortErrs, stopErrs, panicked>>

\* Callback, lines 35-37, for the next entry of the walk: a regular file is
\* registered with wg.Add(1) and its send is next; any other entry is passed.
WalkerCallback(w) ==
    /\ ~panicked
    /\ walkerPc[w] = "walk"
    /\ walkPos[w] < Len(tree)
    /\ tree[walkPos[w] + 1].kind # "unreadable"
    /\ IF IsRegular(tree, walkPos[w] + 1)
       THEN /\ wg' = [wg EXCEPT ![w] = WgAdd(@, 1)]
            /\ walkerPc' = [walkerPc EXCEPT ![w] = "send"]
            /\ UNCHANGED walkPos
       ELSE /\ walkPos' = [walkPos EXCEPT ![w] = @ + 1]
            /\ UNCHANGED <<wg, walkerPc>>
    /\ UNCHANGED <<c, err, p, tree, rootExists, pathsChannel, startPc, startErr, path, spawned, printing,
                   processed, abortErrs, stopErrs, panicked>>

\* Callback and ErrorCallback, lines 34-53, for a directory that cannot be
\* read: the Callback passes it (it is no regular file), reading its entries
\* fails, the ErrorCallback reports the error and answers SkipNode.
WalkerError(w) ==
    /\ ~panicked
    /\ walkerPc[w] = "walk"
    /\ walkPos[w] < Len(tree)
    /\ tree[walkPos[w] + 1].kind = "unreadable"
    /\ walkPos' = [walkPos EXCEPT ![w] = SkipNode(tree, walkPos[w] + 1)]
    /\ UNCHANGED <<c, err, p, tree, rootExists, pathsChannel, startPc, startErr, wg, path, spawned, printing,
                   processed, walkerPc, abortErrs, stopErrs, panicked>>

\* Callback, lines 38-39: the send completes into the buffer.
WalkerSend(w) ==
    /\ ~panicked
    /\ walkerPc[w] = "send"
    /\ CanBuffer(pathsChannel, p.pathChanSize)
    /\ pathsChannel' = [pathsChannel EXCEPT
                          !.buf = Append(@, SentPath(p.path, tree, walkPos[w] + 1))]
    /\ walkPos' = [walkPos EXCEPT ![w] = @ + 1]
    /\ walkerPc' = [walkerPc EXCEPT ![w] = "walk"]
    /\ UNCHANGED <<c, err, p, tree, rootExists, startPc, startErr, wg, path, spawned, printing, processed,
                   abortErrs, stopErrs, panicked>>

\* Callback, lines 38-39, with Start line 271: the buffer is empty and a
\* range loop is waiting, so the path goes straight to its loop variable
\* (the only way a send on an unbuffered channel completes).
WalkerHandoff(w, r) ==
    /\ ~panicked
    /\ walkerPc[w] = "send"
    /\ startPc[r] = "range"
    /\ pathsChannel.buf = <<>>
    /\ path' = [path EXCEPT ![r] = SentPath(p.path, tree, walkPos[w] + 1)]
    /\ startPc' = [startPc EXCEPT ![r] = "body"]
    /\ walkPos' = [walkPos EXCEPT ![w] = @ + 1]
    /\ walkerPc' = [walkerPc EXCEPT ![w] = "walk"]
    /\ UNCHANGED <<c, err, p, tree, rootExists, pathsChannel, startErr, wg, spawned, printing, processed,
                   abortErrs, stopErrs, panicked>>

\* Lines 22 and 54-55: Walk is over and the deferred wg.Done() runs.
WalkerReturn(w) ==
    /\ ~panicked
    /\ walkerPc[w] = "walk"
    /\ walkPos[w] = Len(tree)
    /\ wg' = [wg EXCEPT ![w] = WgAdd(@, -1)]
    /\ panicked' = WgPanics(WgAdd(wg[w], -1))
    /\ walkerPc' = [walkerPc EXCEPT ![w] = "done"]
    /\ UNCHANGED <<c, err, p, tree, rootExists, pathsChannel, startPc, startErr, path, spawned, printing,
                   processed, walkPos, abortErrs, stopErrs>>

\* --------------------------------------------------------- Abort, Stop
\* The value Abort returns (lines 286-289).
AbortResult == "nil"

\* A Stop that rejects every call.
StopResultInvalidState == "InvalidStateError"

\* The value Stop returns (lines 292-295).
StopResult == "nil"

\* An Abort that records the transition on the caller's pipeline.
AbortSetsStatus ==
    /\ ~panicked
    /\ Len(abortErrs) + Len(stopErrs) < MaxCalls
    /\ abortErrs' = Append(abortErrs, AbortResult)
    /\ p' = [p EXCEPT !.status = Aborting]
    /\ UNCHANGED <<c, err, tree, rootExists, pathsChannel, startPc, startErr, wg, path, spawned,
                   printing, processed, walkerPc, walkPos, stopErrs, panicked>>

\* Abort, lines 286-289: a value receiver and an empty body.
Abort ==
    /\ ~panicked
    /\ Len(abortErrs) + Len(stopErrs) < MaxCalls
    /\ abortErrs' = Append(abortErrs, AbortResult)
    /\ UNCHANGED <<c, err, p, tree, rootExists, pathsChannel, startPc, startErr, wg, path, spawned,
                   printing, processed, walkerPc, walkPos, stopErrs, panicked>>

Stop ==
    /\ ~panicked
    /\ Len(abortErrs) + Len(stopErrs) < MaxCalls
    /\ stopErrs' = Append(stopErrs, StopResult)
    /\ UNCHANGED <<c, err, p, tree, rootExists, pathsChannel, startPc, startErr, wg, path, spawned,
                   printing, processed, walkerPc, walkPos, abortErrs, panicked>>

\* ------------------------------------------------------------ cmd.start
\* start, lines 75-87: validateCommandLine, then createPipeline; an error of
\* either is returned and Start is not called.
StartCommand ==
    /\ err = "none"
    /\ IF validateCommandLine(c) # "nil"
       THEN /\ err' = validateCommandLine(c)
            /\ UNCHANGED p
       ELSE /\ err' = NewErr(c.path, c.sbs, c.pcs, c.pcc)
            /\ p' = createPipeline(c)
    /\ UNCHANGED <<c, tree, rootExists, pathsChannel, startPc, startErr, wg, path,
                   spawned, printing, processed, walkerPc, walkPos, abortErrs,
                   stopErrs, panicked>>

\* A client of the package calls New itself, with any arguments.
NewDirect ==
    /\ err = "none"
    /\ err' = NewErr(c.path, c.sbs, c.pcs, c.pcc)
    /\ p' = createPipeline(c)
    /\ UNCHANGED <<c, tree, rootExists, pathsChannel, startPc, startErr, wg, path,
                   spawned, printing, processed, walkerPc, walkPos, abortErrs,
                   stopErrs, panicked>>

\* ------------------------------------------------------- specifications
\* The steps the goroutines of the process take once Start has been called.
Step ==
    \/ \E r \in Runs, w \in Runs : SignalStart(r, w)
    \/ \E r \in Runs : StartRange(r)
    \/ \E r \in Runs : StartSpawn(r)
    \/ \E r \in Runs : ProcessBegin(r)
    \/ \E v \in BagToSet(printing) : ProcessEnd(v)
    \/ \E w \in Runs : WalkerCallback(w)
    \/ \E w \in Runs : WalkerError(w)
    \/ \E w \in Runs : WalkerSend(w)
    \/ \E w \in Runs, r \in Runs : WalkerHandoff(w, r)
    \/ \E w \in Runs : WalkerReturn(w)

\* cmd.start calls APipeline.Start() once.
StartOnce == StartCall(1)

\* A further Start call on the same Pipeline while an earlier call exists.
StartAgain == \E r \in Runs : r > 1 /\ startPc[r - 1] # "idle" /\ StartCall(r)

Next == StartOnce \/ Step \/ Abort \/ Stop

\* Two Start calls on one Pipeline, without Abort or Stop calls.
NextReentrant == StartOnce \/ StartAgain \/ Step

\* The start command from its command line on.
NextCmd == StartCommand \/ StartOnce \/ Step

\* The package used directly: New, then Start.
NextLib == NewDirect \/ StartOnce \/ Step

Spec == Init /\ [][Next]_vars

SpecCmd == InitCmd /\ [][NextCmd]_vars

SpecLib == InitCmd /\ [][NextLib]_vars

SpecReentrant == Init /\ [][NextReentrant]_vars

\* Every goroutine that can take a step eventually takes one; the client is
\* under no obligation to call Abort or Stop.
FairSpec == Spec /\ WF_vars(StartOnce) /\ WF_vars(Step)

\* One run on its own: Start and the goroutines it launches, no other call.
NextRun == StartOnce \/ Step

\* The run on its own, every goroutine that can take a step taking one.
FairRun == Init /\ [][NextRun]_vars /\ WF_vars(StartOnce) /\ WF_vars(Step)

\* ========================================================== properties
\* The regular files under the root, by their kind in the tree.
FilesUnderRoot == { i \in 1..Len(tree) : tree[i].kind = "file" }

\* No directory of the tree is unreadable.
AllAccessible == \A i \in 1..Len(tree) : tree[i].kind # "unreadable"

\* The regular files that are not below an unreadable directory.
AccessibleFiles ==
    { i \in FilesUnderRoot : \A a \in Ancestors(tree, i) \ {0} : tree[a].kind # "unreadable" }

\* The paths the walk of the tree puts on the queue.
EnqueuedPaths == { SentPath(p.path, tree, i) : i \in AccessibleFiles }

\* The walker of the (single) run has returned.
WalkFinished == walkerPc[1] = "done"

\* Every path sent has been received and handed to a processing goroutine.
QueueDrained == pathsChannel.buf = <<>> /\ startPc[1] # "body"

\* No processing goroutine is pending or inside Printf.
ProcessingQuiet == spawned[1] = 0 /\ printing = EmptyBag

\* C1: a Start call during which neither Abort nor Stop is invoked
\* eventually returns to its caller, with nil.
C1_StartReturns ==
    <>(\/ startPc[1] = "returned" /\ startErr[1] = "nil"
       \/ abortErrs # <<>>
       \/ stopErrs # <<>>)

\* C2: the counter of the WaitGroup made in Start is never negative,
\* whatever the tree, the tree without regular files included.
C2_BarrierNeverNegative == \A r \in Runs : wg[r] >= 0

\* C3: every enqueued path is processed by exactly one processing
\* invocation: none is processed twice, and once the walk is finished, the
\* queue drained and the goroutines done, none is left unprocessed.
C3_EachPathProcessedOnce ==
    /\ \A v \in BagToSet(processed (+) printing) : CopiesIn(v, processed (+) printing) <= 1
    /\ (WalkFinished /\ QueueDrained /\ ProcessingQuiet)
          => \A v \in EnqueuedPaths : CopiesIn(v, processed) = 1

\* The processing goroutines launched so far.
Invocations == spawned[1] + BagCardinality(printing) + BagCardinality(processed)

\* C4: for a tree of directories and accessible regular files, once the walk
\* has finished and the queue is drained, the number of processing
\* invocations equals the number of regular files under the root (and all of
\* them have completed once no goroutine is pending).
C4_InvocationsEqualFiles ==
    (AllAccessible /\ WalkFinished /\ QueueDrained) =>
        /\ Invocations = Cardinality(FilesUnderRoot)
        /\ ProcessingQuiet => BagCardinality(processed) = Cardinality(FilesUnderRoot)

\* C4 witness: a tree with a directory and two regular files, walked,
\* drained and fully processed.
C4_Witness ==
    /\ AllAccessible /\ WalkFinished /\ QueueDrained /\ ProcessingQuiet
    /\ Cardinality(FilesUnderRoot) = 2
    /\ Len(tree) = 3
    /\ BagCardinality(processed) = 2

\* C5: the number of goroutines executing the processing step at once is at
\* most pathConsumerCount.
C5_WorkerCountRespected == BagCardinality(printing) <= p.pathConsumerCount

\* A send of the walker completes in this step.
SendCompletes == \E w \in Runs : walkerPc[w] = "send" /\ walkerPc'[w] # "send"

\* A receive of a range loop happens in this step.
ReceiveHappens == \E r \in Runs : startPc[r] = "range" /\ startPc'[r] = "body"

\* C6: the queue never buffers more than pathChanSize paths, and while it
\* holds pathChanSize paths a send completes only in a step in which a
\* receive happens.
C6_QueueCapacityRespected ==
    /\ [](Len(pathsChannel.buf) <= p.pathChanSize)
    /\ [][(Len(pathsChannel.buf) = p.pathChanSize /\ SendCompletes) => ReceiveHappens]_vars

\* C6 witness: a queue of capacity 1 is full and the walker has a second
\* path to send.
C6_Witness ==
    /\ p.pathChanSize = 1
    /\ Len(pathsChannel.buf) = p.pathChanSize
    /\ walkerPc[1] = "send"

\* The files the walker has registered with the barrier so far.
Discovered ==
    Cardinality({ i \in AccessibleFiles : i <= walkPos[1] })
        + (IF walkerPc[1] = "send" THEN 1 ELSE 0)

\* C7: the barrier counter always equals the number of discovered files
\* whose processing has not finished.
C7_BarrierCountsOutstanding == wg[1] = Discovered - BagCardinality(processed)

\* C8: the queue is closed after the walker has finished, never before its
\* last send, and once it is closed and drained the consumer loop exits.
C8_QueueClosedAfterWalk ==
    /\ WalkFinished ~> pathsChannel.closed
    /\ [](pathsChannel.closed => WalkFinished)
    /\ (pathsChannel.closed /\ pathsChannel.buf = <<>>) ~> (startPc[1] \in {"wait", "returned"})

\* A Start call is under way.
RunActive(r) == startPc[r] \notin {"idle", "returned"}

\* C9: an Abort call made while Start is running sets the state to
\* Aborting, and Start then returns.
C9_AbortEndsRun ==
    /\ [][(abortErrs' # abortErrs /\ RunActive(1)) => p'.status = Aborting]_vars
    /\ (abortErrs # <<>> /\ RunActive(1)) ~> (startPc[1] = "returned")

\* C10: a Start call made while another Start call is under way fails with
\* an InvalidStateError and launches no walker; at most one run is active.
C10_NoReentrantStart ==
    /\ [](Cardinality({ r \in Runs : RunActive(r) }) <= 1)
    /\ [][\A r \in Runs :
            (startPc[r] = "idle" /\ startPc'[r] # "idle" /\ \E o \in Runs \ {r} : RunActive(o))
               => (startErr'[r] = "InvalidStateError" /\ walkerPc'[r] = "none")]_vars

\* The value the latest call of a method returned.
Latest(errs) == errs[Len(errs)]

\* C11: Abort and Stop called while the state is Stopped each return an
\* InvalidStateError.
C11_StoppedRejectsAbortStop ==
    [][/\ (p.status = Stopped /\ abortErrs' # abortErrs)
            => Latest(abortErrs') = "InvalidStateError"
       /\ (p.status = Stopped /\ stopErrs' # stopErrs)
            => Latest(stopErrs') = "InvalidStateError"]_vars

\* C12: during a Start call the state is Starting until the start gate is
\* opened, Running from then on, and Stopped before the call and after it.
C12_StartStateSequence ==
    /\ startPc[1] \in {"idle", "returned"} => p.status = Stopped
    /\ startPc[1] = "signal" => p.status = Starting
    /\ startPc[1] \in {"range", "body", "wait"} => p.status = Running

\* A processing goroutine takes a step.
ProcessingHappens == printing' # printing

\* C13: the walker sends and the goroutines process only while the state is
\* Running or Stopping.
C13_WorkOnlyWhileRunning ==
    [][(SendCompletes \/ ProcessingHappens) => p.status \in {Running, Stopping}]_vars

\* The controller has sent the start signal.
GateSignalled == startPc[1] \notin {"idle", "signal"}

\* The walker has received the start signal.
WalkerPastGate == walkerPc[1] \in {"walk", "send", "done"}

\* C14: the walker sends nothing before the start signal has been sent and
\* received, and the signal is sent once and received once.
C14_NoSendBeforeGate ==
    /\ []((walkerPc[1] = "send" \/ walkPos[1] > 0 \/ wg[1] # 0 \/ pathsChannel.buf # <<>>)
             => (GateSignalled /\ WalkerPastGate))
    /\ [](GateSignalled <=> WalkerPastGate)
    /\ [][(GateSignalled => GateSignalled') /\ (WalkerPastGate => WalkerPastGate')]_vars

\* C14 witness: the gate has been passed and the walker is sending.
C14_Witness == GateSignalled /\ walkerPc[1] = "send"

\* The increments of the barrier so far (its only decrement is the walker's
\* Done).
Registered == wg[1] + (IF walkerPc[1] = "done" THEN 1 ELSE 0)

\* The paths that have left the walker: buffered, held by the loop, or
\* handed to a goroutine.
Emitted ==
    Len(pathsChannel.buf) + (IF startPc[1] = "body" THEN 1 ELSE 0) + Invocations

\* C15: the barrier is incremented for a file before its path is sent:
\* every pending send and every path sent has its increment.
C15_RegisterBeforeSend ==
    Registered >= Emitted + (IF walkerPc[1] = "send" THEN 1 ELSE 0)

\* C15 witness: one path is buffered and the send of the next is pending.
C15_Witness == walkerPc[1] = "send" /\ pathsChannel.buf # <<>> /\ wg[1] = 2

\* An Abort or Stop call returns in this step.
CallReturns == abortErrs' # abortErrs \/ stopErrs' # stopErrs

C20_ReadErrorSkipsNode ==
    Emitted = Cardinality({ i \in AccessibleFiles : i <= walkPos[1] })

\* C20 witness: an unreadable directory holding a file, then a sibling
\* file; the walk has finished and exactly the sibling was emitted.
C20_Witness ==
    /\ WalkFinished
    /\ Len(tree) = 3
    /\ tree[1].kind = "unreadable"
    /\ tree[2].kind = "file" /\ tree[2].parent = 1
    /\ tree[3].kind = "file" /\ tree[3].parent = 0
    /\ Emitted = 1

\* C16: when the root path does not exist, Start returns a non-nil
\* root-access error, no file is processed, and the run neither crashes nor
\* hangs.
C16_MissingRootIsReported ==
    /\ [](~rootExists => (~panicked /\ processed = EmptyBag))
    /\ (~rootExists) ~> (startPc[1] = "returned" /\ startErr[1] \notin {"none", "nil"})

\* A command line the start command must refuse.
OutOfRange(cl) ==
    \/ cl.path = <<>>
    \/ cl.sbs > 1000 * 1024
    \/ cl.pcs > 256
    \/ cl.pcc > 50

C18_NewRevalidatesCeilings ==
    p # NilPipeline =>
        /\ p.pathChanSize <= 256
        /\ p.pathConsumerCount <= 50
        /\ p.scannerBufferSize <= 1000 * 1024

\* The elements of a sequence.
Range(q) == { q[k] : k \in 1..Len(q) }

\* The paths that have left the walker of the run and are somewhere in the
\* pipeline: buffered, in the loop variable, or with a processing goroutine.
PathsInFlight ==
    Range(pathsChannel.buf)
        \cup (IF path[1] # <<>> THEN {path[1]} ELSE {})
        \cup BagToSet(printing) \cup BagToSet(processed)

\* C21: every string the walker sends is the path of a regular file as the
\* walk reports it: the root, the directories down to the file and the file
\* name once.
C21_SentPathIsFilePath ==
    \A v \in PathsInFlight :
        \E i \in FilesUnderRoot : v = OsPathname(p.path, tree, i)

\* C22: whatever the tree and the capacity of the queue (0 included), the
\* walker is never blocked for ever at the start gate or at a send: a send
\* it has begun completes, a buffered path is received, and the walker
\* reaches the end of its walk.
C22_WalkerAlwaysFinishes ==
    /\ <>(walkerPc[1] = "done")
    /\ [](walkerPc[1] = "gate" => <>(walkerPc[1] # "gate"))
    /\ [](walkerPc[1] = "send" => <>(walkerPc[1] # "send"))
    /\ [](pathsChannel.buf # <<>> => <>(pathsChannel.buf = <<>>))

\* C22 witness: on an unbuffered queue the walker has sent two paths and
\* reached the end of its walk.
C22_Witness ==
    /\ p.pathChanSize = 0
    /\ Cardinality(AccessibleFiles) >= 2
    /\ WalkFinished
    /\ Emitted = Cardinality(AccessibleFiles)

====
